---- MODULE Spec2Model ----
(***************************************************************************)
(* Workflow execution engine of ygai: the WorkflowManager loads the        *)
(* session history through the SelectiveSaver, builds the linear node      *)
(* chain and runs it; after every step the engine hands a checkpoint to    *)
(* SelectiveSaver.put, which forwards it to the wrapped store only when    *)
(* transientData.currentNodeName is on the allow-list.                     *)
(***************************************************************************)
EXTENDS Integers, Sequences, FiniteSets, TLC

VARIABLES
  store,      \* checkpoints held by the wrapped saver for the session, oldest first
  pc,         \* "idle" | "running" | "done" | "failed" | "hung" | "interrupted"
  cfg,        \* the ExecutionConfig of the current invocation
  chain,      \* node sequence of the compiled workflow
  pos,        \* index in chain of the next node to run
  messages,   \* state.messages
  stream,     \* state.stream
  transient,  \* transientData
  trace,      \* nodes entered so far in this invocation
  lastPut,    \* the most recent SelectiveSaver.put call of this invocation
  forwarded,  \* puts the wrapped saver received during this invocation
  modelCalls, \* calls of the chat model / agent made in this invocation
  modelInput, \* messages handed to the model by the last call
  response,   \* text of the assistant response produced in this invocation
  loaded,     \* history loaded at the start of this invocation
  ctx,        \* outcome of the context-window node in this invocation
  hookSeen,   \* stateCopy handed to the most recent hook function
  db,         \* this invocation's use of the checkpoint database
  options,    \* command-line options of this invocation beside the config
  call,       \* the last call made to a function or saver method on its own
  thrown,     \* name of the node whose error ended this invocation, or "none"
  exitCode,   \* exit code of the last process that ended: "none" | "0" | "1"
  ui,         \* loading indicators created, the current one, SIGINT/SIGTERM listeners
  stdout,     \* writes to process.stdout made by this invocation, in order
  mcpClient,  \* the tool-server client of this invocation: "none" | "open" | "closed"
  hookRun,    \* the most recent hook execution: what the hook did, how it ended
  turns       \* invocations started so far

vars == <<store, pc, cfg, chain, pos, messages, stream, transient, trace,
          lastPut, forwarded, modelCalls, modelInput, response, loaded, ctx,
          hookSeen, hookRun, mcpClient, stdout, ui, db, options, call, thrown, exitCode, turns>>

(***************************************************************************)
(* Bounds and inputs                                                       *)
(***************************************************************************)
MaxTurns == 2
MaxHooks == 2
ContextWindow == 40
\* inputs of calculateInputBudget when it is checked on its own
MaxContextWindow == 20
MaxOutputTokens == 11
MaxReserveTokens == 3

FileChoices == {"none", "small", "big"}
\* what a configured hook does when it is executed:
\*   "object"        returns an object of variables
\*   "null"          rewrites its state and data arguments in place, returns null
\*   "throw"         rewrites its arguments in place, then throws
\*   "number"        returns a number
\*   "loop_on_load"  the top-level code of the hook file never finishes
\*   "loop_in_call"  the hook function never finishes
\*   "never_settles" the hook function returns a promise that never settles
HookOutcomes == {"object", "null", "throw", "number", "loop_on_load",
                 "loop_in_call", "never_settles"}
HOOK_TIMEOUT == 5000

\* the i-th configured hook function name (0-based, as in the builder)
HookFn(i) == IF i = 0 THEN "output" ELSE "validate"

HookList(n) == [i \in 1..n |-> [file |-> "hooks.js", function |-> HookFn(i - 1)]]

(***************************************************************************)
(* Texts are sequences of atoms; each atom stands for a run of characters. *)
(***************************************************************************)
AtomLen(a) ==
  CASE a = "ctx_open"  -> 26
    [] a = "ctx_close" -> 12
    [] a = "small"     -> 6
    [] a = "big"       -> 26
    [] OTHER           -> 4

RECURSIVE CharLength(_)
CharLength(text) ==
  IF text = <<>> THEN 0 ELSE AtomLen(Head(text)) + CharLength(Tail(text))

countTokens(text) == (CharLength(text) + 3) \div 4

RECURSIVE countMessageTokens(_)
countMessageTokens(msgs) ==
  IF msgs = <<>> THEN 0
  ELSE countTokens(Head(msgs).content) + countMessageTokens(Tail(msgs))

Min(a, b) == IF a < b THEN a ELSE b
Max(a, b) == IF a > b THEN a ELSE b

\* variant: neither the caps nor the 10% floor are applied
calculateInputBudget_Unclamped(contextWindow, maxOutputTokens, reserveTokens) ==
  contextWindow - maxOutputTokens - reserveTokens

calculateInputBudget(contextWindow, maxOutputTokens, reserveTokens) ==
  LET cappedOutputTokens  == Min(maxOutputTokens, contextWindow \div 2)
      cappedReserveTokens == Min(reserveTokens, contextWindow \div 10)
      budget == contextWindow - cappedOutputTokens - cappedReserveTokens
  IN  Max(budget, contextWindow \div 10)

DefaultMaxOutputTokens == 4096
SystemOverhead == 100

usableCapacity == (ContextWindow * 8) \div 10
totalBudget == calculateInputBudget(usableCapacity, DefaultMaxOutputTokens, SystemOverhead)

(***************************************************************************)
(* Messages                                                                *)
(***************************************************************************)
Msg(t, c) == [type |-> t, content |-> c]
HumanMessage(c) == Msg("human", c)
AIMessage(c) == Msg("ai", c)
SystemMessage(c) == Msg("system", c)
ToolMessage(c) == Msg("tool", c)

UserAtoms == <<"u1", "u2", "u3", "u4", "u5">>
UserInput(t) == <<UserAtoms[t]>>

RECURSIVE Filter(_, _)
Filter(msgs, types) ==
  IF msgs = <<>> THEN <<>>
  ELSE IF Head(msgs).type \in types THEN <<Head(msgs)>> \o Filter(Tail(msgs), types)
       ELSE Filter(Tail(msgs), types)

Reverse(s) == [i \in 1..Len(s) |-> s[Len(s) + 1 - i]]
Last(s) == s[Len(s)]

(***************************************************************************)
(* trimMessages of @langchain/core as called by the context-window node:   *)
(* strategy "last", includeSystem, startOn human, endOn human|tool,        *)
(* allowPartial false.                                                     *)
(***************************************************************************)
\* largest index <= n whose message type is in types, 0 when there is none
LastOfType(msgs, n, types) ==
  LET S == {j \in 1..n : msgs[j].type \in types}
  IN  IF S = {} THEN 0 ELSE CHOOSE j \in S : \A k \in S : k <= j

firstMaxTokens(msgs, maxTokens, endOn) ==
  LET fits == {k \in 1..Len(msgs) : countMessageTokens(SubSeq(msgs, 1, k)) <= maxTokens}
      idx0 == IF fits = {} THEN 0 ELSE CHOOSE k \in fits : \A j \in fits : j <= k
      idx  == LastOfType(msgs, idx0, endOn)
  IN  SubSeq(msgs, 1, idx)

lastMaxTokens(msgs, maxTokens, startOn, endOn) ==
  LET copy == SubSeq(msgs, 1, LastOfType(msgs, Len(msgs), endOn))
      swappedSystem == copy # <<>> /\ copy[1].type = "system"
      reversed == IF swappedSystem THEN <<copy[1]>> \o Reverse(Tail(copy))
                  ELSE Reverse(copy)
      kept == firstMaxTokens(reversed, maxTokens, startOn)
  IN  IF swappedSystem /\ kept # <<>> THEN <<kept[1]>> \o Reverse(Tail(kept))
      ELSE Reverse(kept)

trimMessages(msgs, maxTokens) ==
  lastMaxTokens(msgs, maxTokens, {"human"}, {"human", "tool"})

(***************************************************************************)
(* Context-window node: [kind |-> "none" | "fits" | "trimmed" | "overflow"]*)
(***************************************************************************)
\* variant: no fast path, the history is always handed to trimMessages
contextWindow_NoFastPath(msgs, fileMessages) ==
  LET fileTokens == IF fileMessages # <<>> THEN countMessageTokens(fileMessages) ELSE 0
      historyBudget == Max(totalBudget - fileTokens, totalBudget \div 4)
      trimmedMessages == trimMessages(msgs, historyBudget)
  IN  IF Len(msgs) = 0 THEN [kind |-> "none", messages |-> msgs]
      ELSE IF countMessageTokens(trimmedMessages) + fileTokens > totalBudget
           THEN [kind |-> "overflow", messages |-> msgs]
      ELSE [kind |-> "trimmed", messages |-> trimmedMessages]

contextWindow(msgs, fileMessages) ==
  LET fileTokens == IF fileMessages # <<>> THEN countMessageTokens(fileMessages) ELSE 0
      minHistoryBudget == totalBudget \div 4
      historyBudget == Max(totalBudget - fileTokens, minHistoryBudget)
      originalTokens == countMessageTokens(msgs)
      trimmedMessages == trimMessages(msgs, historyBudget)
      trimmedTokens == countMessageTokens(trimmedMessages)
  IN  IF Len(msgs) = 0 THEN [kind |-> "none", messages |-> msgs]
      ELSE IF originalTokens + fileTokens <= totalBudget
           THEN [kind |-> "fits", messages |-> msgs]
      ELSE IF trimmedTokens + fileTokens > totalBudget
           THEN [kind |-> "overflow", messages |-> msgs]
      ELSE [kind |-> "trimmed", messages |-> trimmedMessages]

(***************************************************************************)
(* SelectiveSaver                                                          *)
(***************************************************************************)
NoTag == "undefined"
\* variant: the LLM nodes are listed as checkpoint nodes too
checkpointNodes_WithLLM == {"output", "standard-llm", "mcp-llm"}

\* the checkpointNodes option WorkflowManager gives the SelectiveSaver
checkpointNodes == {"output"}

extractLastNodeVisited(tr) == tr.currentNodeName

\* variant: any node that set a tag is checkpointed
shouldCheckpoint_AnyTag(tr) == extractLastNodeVisited(tr) # NoTag

shouldCheckpoint(tr) ==
  LET lastNodeVisited == extractLastNodeVisited(tr)
  IN  IF lastNodeVisited = NoTag THEN FALSE
      ELSE lastNodeVisited \in checkpointNodes

\* put: the wrapped saver's put is called only when shouldCheckpoint holds;
\* otherwise the caller gets its config back
put(tr, st, checkpoint) ==
  IF shouldCheckpoint(tr)
  THEN [store |-> Append(st, checkpoint), result |-> "wrapped"]
  ELSE [store |-> st, result |-> "config"]

getTuple(st) == IF st = <<>> THEN <<>> ELSE Last(st).messages

(***************************************************************************)
(* state.stream and its trip through the checkpoint serializer             *)
(***************************************************************************)
NoStream == [state |-> "none", chunks |-> <<>>]
LiveStream(chunks) == [state |-> "live", chunks |-> chunks]

\* a stream handle has no enumerable fields: it is written as an empty
\* object and read back as a truthy value that cannot be iterated
Serialize(strm) ==
  IF strm.state = "none" THEN NoStream ELSE [state |-> "stale", chunks |-> <<>>]

Checkpoint(msgs, strm) == [messages |-> msgs, stream |-> Serialize(strm)]

(***************************************************************************)
(* Workflow builder                                                        *)
(***************************************************************************)
Node(name, index, fn) == [name |-> name, index |-> index, function |-> fn]

HookNodes(name, hooks) ==
  [i \in 1..Len(hooks) |-> Node(name, i - 1, hooks[i].function)]

\* variant: the standard LLM node is added whatever the tool servers are
llmNodeName_Standard(c) == "standard_llm"

\* hasMcpServers selects the one LLM node that is added and wired
llmNodeName(c) == IF c.hasMcpServers THEN "mcp_llm" ELSE "standard_llm"

\* variant: the order of the builder's doc comment, post-hooks before output
buildConversationWorkflow_PostBeforeOutput(c) ==
  <<Node("initialization", 0, ""), Node("file_processing", 0, "")>>
  \o HookNodes("pre_hook", c.preHooks)
  \o <<Node("context_window", 0, ""), Node(llmNodeName(c), 0, "")>>
  \o HookNodes("post_hook", c.postHooks)
  \o <<Node("output", 0, "")>>

\* the path from __start__ to __end__ along the edges the builder adds
buildConversationWorkflow(c) ==
  <<Node("initialization", 0, ""), Node("file_processing", 0, "")>>
  \o HookNodes("pre_hook", c.preHooks)
  \o <<Node("context_window", 0, ""), Node(llmNodeName(c), 0, ""),
       Node("output", 0, "")>>
  \o HookNodes("post_hook", c.postHooks)

(***************************************************************************)
(* Node helpers                                                            *)
(***************************************************************************)
\* variant: the hook's function name is used as the tag, without prefix
HookTag_Bare(fn) == fn

HookTag(fn) ==
  CASE fn = "output"   -> "hook_output"
    [] fn = "validate" -> "hook_validate"
    [] OTHER           -> "hook_"

SystemPrompt == <<"sys">>

\* variant: the history is left out of the assembled messages
prepareLLMMessages_NoHistory(historyMessages, tr) ==
  LET humanMessage == <<HumanMessage(tr.variables["user_input"])>>
  IN  [messages |-> <<SystemMessage(SystemPrompt)>> \o tr.fileMessages \o humanMessage,
       humanMessage |-> humanMessage]

\* createAndFormatChatPrompt via prepareLLMMessages
prepareLLMMessages(historyMessages, tr) ==
  LET historyFiltered == Filter(historyMessages, {"human", "ai", "tool"})
      existingMessages == tr.fileMessages \o historyFiltered
      humanMessage == <<HumanMessage(tr.variables["user_input"])>>
  IN  [messages |-> <<SystemMessage(SystemPrompt)>> \o existingMessages \o humanMessage,
       humanMessage |-> humanMessage]

generateFilesContextString(f) == <<"ctx_open", f, "ctx_close">>

\* variant: only the text of the last chunk is kept
processStream_LastChunk(chunks) ==
  IF chunks = <<>> THEN <<>> ELSE chunks[Len(chunks)]

RECURSIVE processStream(_)
processStream(chunks) ==
  IF chunks = <<>> THEN <<>>
  ELSE IF Head(chunks) # <<>> THEN Head(chunks) \o processStream(Tail(chunks))
       ELSE processStream(Tail(chunks))

\* the writes processStream makes when it streams to the console
RECURSIVE StreamWrites(_)
StreamWrites(chunks) ==
  IF chunks = <<>> THEN <<>>
  ELSE IF Head(chunks) # <<>>
       THEN <<[kind |-> "chunk", text |-> Head(chunks)]>> \o StreamWrites(Tail(chunks))
       ELSE StreamWrites(Tail(chunks))

\* a streamed response is closed by a newline; otherwise the content is
\* written (plain or rendered)
handleConsoleOutput(content, hasStream, shouldStream) ==
  IF hasStream /\ shouldStream THEN <<[kind |-> "newline", text |-> <<>>]>>
  ELSE <<[kind |-> "response", text |-> content]>>

getLastMessageContent(msgs) == IF msgs = <<>> THEN <<>> ELSE Last(msgs).content

stateCopy(msgs) == [i \in 1..Len(msgs) |-> [type |-> msgs[i].type, content |-> msgs[i].content]]

\* JSON.parse(JSON.stringify(data)): messages come back as their serialized form
dataCopy(tr) ==
  [variables |-> tr.variables,
   fileMessages |-> [i \in 1..Len(tr.fileMessages) |->
                       [lc |-> 1, id |-> tr.fileMessages[i].type,
                        kwargs |-> [content |-> tr.fileMessages[i].content]]],
   currentNodeName |-> tr.currentNodeName]

MergeVariables(variables, hookResult) ==
  [k \in DOMAIN variables \cup DOMAIN hookResult |->
     IF k \in DOMAIN hookResult THEN hookResult[k] ELSE variables[k]]

NoVariables == [k \in {} |-> <<>>]

\* value the hook function returns (when it returns)
HookReturn(behaviour, fn) ==
  CASE behaviour = "object" -> [kind |-> "object", value |-> [k \in {"note"} |-> <<fn>>]]
    [] behaviour = "number" -> [kind |-> "number", value |-> NoVariables]
    [] OTHER -> [kind |-> "null", value |-> NoVariables]

\* variant: the hook function is handed the caller's own objects
SandboxArgs_Shared == [state |-> "state", data |-> "data"]

\* the objects the hook function is called with: the copies
SandboxArgs == [state |-> "stateCopy", data |-> "dataCopy"]

\* variant: any returned value is accepted
validResult_Any(result) == TRUE

\* the returned value must be an object, null or undefined
validResult(result) == result.kind \in {"object", "null"}

\* createSandbox: load the hook file (script.runInContext, under the vm
\* timeout), call the hook function (plain call, awaited), validate.
\* state and data are the caller's objects as they are after the call.
createSandbox(behaviour, fn, msgs, tr) ==
  LET heap == [state |-> msgs, data |-> tr,
               stateCopy |-> stateCopy(msgs), dataCopy |-> dataCopy(tr)]
      args == SandboxArgs
      rewritten == [heap EXCEPT ![args.state] = <<>>,
                                ![args.data] = [@ EXCEPT !.variables = NoVariables,
                                                         !.fileMessages = <<>>]]
      after == IF behaviour \in {"null", "throw"} THEN rewritten ELSE heap
      result == HookReturn(behaviour, fn)
      Outcome(kind, error, elapsed, h) ==
        [kind |-> kind, error |-> error, elapsed |-> elapsed, result |-> result,
         seen |-> heap[args.state], state |-> h.state, data |-> h.data]
  IN  IF behaviour = "loop_on_load"
      THEN Outcome("error", "timeout", HOOK_TIMEOUT, heap)
      ELSE IF behaviour \in {"loop_in_call", "never_settles"}
      THEN Outcome("hang", "none", 0, after)
      ELSE IF behaviour = "throw"
      THEN Outcome("error", "failed", 0, after)
      ELSE IF ~validResult(result)
      THEN Outcome("error", "failed", 0, after)
      ELSE Outcome("value", "none", 0, after)

\* what the provider streams: the chunks and the text they spell
ModelStreams ==
  { [chunks |-> << <<"c1">> >>, text |-> <<"c1">>],
    [chunks |-> << <<"c1">>, <<>>, <<"c2">> >>, text |-> <<"c1", "c2">>] }
ResponseTexts == { <<"c1">>, <<"c1", "c2">> }

\* messages a ReAct agent adds to its input: a direct answer, or a tool round
\* that ends in the answer
AgentRun(text) ==
  IF Len(text) = 1 THEN <<AIMessage(text)>>
  ELSE <<AIMessage(<<>>), ToolMessage(<<"tool">>), AIMessage(text)>>

(***************************************************************************)
(* Loading indicator (ui-manager, loading-indicator)                       *)
(***************************************************************************)
NoUI == [running |-> <<>>, current |-> 0, handlers |-> <<>>, line |-> "clear"]

AnyRunning(running) == \E i \in 1..Len(running) : running[i]

\* indicator i: stop() returns when it is not running; otherwise it clears
\* its interval and the line (another running indicator redraws its frame)
indicatorStop(u, i) ==
  IF ~u.running[i] THEN u
  ELSE LET r == [u.running EXCEPT ![i] = FALSE]
       IN  [u EXCEPT !.running = r,
                     !.line = IF AnyRunning(r) THEN "spinner" ELSE "clear"]

\* a new indicator is created and started; start() registers its cleanup as
\* a once-listener for SIGINT and SIGTERM
startLoading(u) ==
  LET i == Len(u.running) + 1
  IN  [running |-> Append(u.running, TRUE), current |-> i,
       handlers |-> Append(u.handlers, i), line |-> "spinner"]

stopLoading(u) ==
  LET v == IF u.current # 0 THEN indicatorStop(u, u.current) ELSE u
  IN  [v EXCEPT !.current = 0]

updateLoadingStage(u) ==
  IF u.current = 0 \/ ~u.running[u.current] THEN startLoading(u) ELSE u

\* InterceptConsoleTransport.log for a message above debug level
log(u) == stopLoading(u)

\* the first registered listener runs: stop() of its own indicator, then
\* process.exit(0); no later listener runs
cleanup(u) == IF u.handlers = <<>> THEN u ELSE indicatorStop(u, Head(u.handlers))

(***************************************************************************)
(* State machine                                                           *)
(***************************************************************************)
NoPut == [n |-> 0, node |-> "none", tag |-> NoTag, before |-> 0, after |-> 0,
          result |-> "none"]
NoConfig == [enableHistory |-> FALSE, preHooks |-> <<>>, postHooks |-> <<>>,
             hasMcpServers |-> FALSE, modelHasStream |-> FALSE, files |-> "none",
             shouldStream |-> FALSE]
NoContext == [kind |-> "unset", messages |-> <<>>]
NoHookRun == [behaviour |-> "none", kind |-> "none", error |-> "none", elapsed |-> 0,
              result |-> [kind |-> "null", value |-> NoVariables],
              before |-> NoVariables]
NoTransient == [variables |-> [k \in {"user_input"} |-> <<>>],
                fileMessages |-> <<>>, currentNodeName |-> NoTag]

NoCall == [op |-> "none"]

\* no database opened, no saver attached to the graph, nothing read
NoDb == [opened |-> FALSE, attached |-> FALSE, reads |-> 0, failed |-> 0]
\* --checkpoint <id>: 0 when the option is absent
NoOptions == [checkpoint |-> 0]

\* how the reads of the latest checkpoint end
ReadFaults == {"ok", "first", "every"}

\* variant: the database is opened and read whether or not a session is named
createCheckpointer_AlwaysOpen(c, st, fault) ==
  [checkpointer |-> TRUE,
   history |-> IF fault = "ok" THEN getTuple(st) ELSE <<>>,
   db |-> [opened |-> TRUE, attached |-> TRUE, reads |-> 1,
           failed |-> IF fault = "ok" THEN 0 ELSE 1]]

\* without history nothing is opened; with it the database is opened, the
\* SelectiveSaver is built and the thread's latest checkpoint is read, a
\* failed read being caught and leaving the history empty
createCheckpointer(c, st, fault) ==
  IF ~c.enableHistory
  THEN [checkpointer |-> FALSE, history |-> <<>>, db |-> NoDb]
  ELSE [checkpointer |-> TRUE,
        history |-> IF fault = "ok" THEN getTuple(st) ELSE <<>>,
        db |-> [opened |-> TRUE, attached |-> TRUE, reads |-> 1,
                failed |-> IF fault = "ok" THEN 0 ELSE 1]]

Configs ==
  { [enableHistory |-> h, preHooks |-> HookList(np), postHooks |-> HookList(nq),
     hasMcpServers |-> m, modelHasStream |-> ms, files |-> f, shouldStream |-> ss] :
      h \in BOOLEAN, m \in BOOLEAN, ms \in BOOLEAN, ss \in BOOLEAN, f \in FileChoices,
      np \in 0..MaxHooks, nq \in 0..MaxHooks }

\* a process that has not started an invocation yet
Fresh ==
  /\ pc = "idle"
  /\ cfg = NoConfig
  /\ chain = <<>>
  /\ pos = 1
  /\ messages = <<>>
  /\ stream = NoStream
  /\ transient = NoTransient
  /\ trace = <<>>
  /\ lastPut = NoPut
  /\ forwarded = 0
  /\ modelCalls = 0
  /\ modelInput = <<>>
  /\ response = <<>>
  /\ loaded = <<>>
  /\ ctx = NoContext
  /\ hookSeen = <<>>
  /\ hookRun = NoHookRun
  /\ mcpClient = "none"
  /\ stdout = <<>>
  /\ ui = NoUI
  /\ db = NoDb
  /\ options = NoOptions
  /\ call = NoCall
  /\ thrown = "none"
  /\ exitCode = "none"
  /\ turns = 0

Init == store = <<>> /\ Fresh

\* the engine hands the checkpoint of the step just applied to the saver
EnginePut(node, tr, msgs, strm) ==
  IF db.attached
  THEN LET r == put(tr, store, Checkpoint(msgs, strm))
       IN  /\ store' = r.store
           /\ lastPut' = [n |-> lastPut.n + 1, node |-> node.name,
                          tag |-> tr.currentNodeName,
                          before |-> Len(store), after |-> Len(r.store),
                          result |-> r.result]
           /\ forwarded' = forwarded + (IF r.result = "wrapped" THEN 1 ELSE 0)
  ELSE UNCHANGED <<store, lastPut, forwarded>>

\* a node returned its delta: the engine applies it, checkpoints, moves on
Return(node, msgs, strm, tr) ==
  /\ messages' = msgs
  /\ stream' = strm
  /\ transient' = tr
  /\ trace' = Append(trace, node)
  /\ UNCHANGED <<cfg, chain, loaded, turns, thrown, exitCode, db, options, call>>
  /\ EnginePut(node, tr, msgs, strm)
  /\ pos' = pos + 1
  /\ pc' = IF pos = Len(chain) THEN "done" ELSE "running"

\* variant: the error is caught and dropped, the run goes on to the next node
Throw_Swallowed(node, tr) ==
  /\ transient' = tr
  /\ trace' = Append(trace, node)
  /\ thrown' = node.name
  /\ pos' = pos + 1
  /\ pc' = IF pos = Len(chain) THEN "done" ELSE "running"
  /\ UNCHANGED <<store, lastPut, forwarded, messages, stream, cfg, chain,
                 loaded, turns, exitCode, db, options, call>>

\* a node threw: nothing is applied, the node's catch rethrows, invoke
\* rejects and WorkflowManager.execute rethrows
Throw(node, tr) ==
  /\ transient' = tr
  /\ trace' = Append(trace, node)
  /\ thrown' = node.name
  /\ pc' = "failed"
  /\ UNCHANGED <<store, lastPut, forwarded, messages, stream, cfg, chain,
                 pos, loaded, turns, exitCode, db, options, call>>

\* a node never returns: the invocation stays inside it
Hang(node, tr) ==
  /\ transient' = tr
  /\ trace' = Append(trace, node)
  /\ pc' = "hung"
  /\ UNCHANGED <<store, lastPut, forwarded, messages, stream, cfg, chain,
                 pos, loaded, turns, thrown, exitCode, db, options, call>>

\* ui once the node is left: execute stops the indicator after invoke
\* returned and in its catch
AfterNode(u) == IF pc' \in {"done", "failed"} THEN stopLoading(u) ELSE u

\* variant: the node starts without writing its name into the transient data
Entered_Stale(tag) == transient

\* transientData.currentNodeName = ... at the start of a node function
Entered(tag) == [transient EXCEPT !.currentNodeName = tag]

AtNode(name) == pc = "running" /\ pos <= Len(chain) /\ chain[pos].name = name

\* WorkflowManager.execute up to the engine's input checkpoint, for an
\* invocation whose --checkpoint option is drawn from ids and whose reads of
\* the latest checkpoint end as one of faults
Invoke(ids, faults) ==
  /\ pc = "idle"
  /\ turns < MaxTurns
  /\ \E c \in Configs, id \in ids, fault \in faults :
       /\ Len(c.preHooks) + Len(c.postHooks) <= MaxHooks
       /\ c.hasMcpServers => c.modelHasStream
       \* shouldStream is read only where a stream was consumed
       /\ c.shouldStream => (c.modelHasStream /\ ~c.hasMcpServers)
       /\ id # 0 => (c.enableHistory /\ id <= Len(store))
       /\ fault # "ok" => (c.enableHistory /\ store # <<>>)
       /\ cfg' = c
       /\ options' = [checkpoint |-> id]
       /\ LET k == createCheckpointer(c, store, fault)
              history == k.history
              \* the engine reads the thread's latest checkpoint itself when
              \* a saver is attached
              engineReads == IF k.checkpointer THEN 1 ELSE 0
              engineFails == k.checkpointer /\ fault = "every"
              restored == IF k.checkpointer /\ store # <<>>
                          THEN Last(store).stream ELSE NoStream
              tr == [variables |-> [v \in {"user_input"} |-> UserInput(turns + 1)],
                     fileMessages |-> <<>>, currentNodeName |-> NoTag]
          IN  /\ loaded' = history
              /\ transient' = tr
              /\ chain' = buildConversationWorkflow(c)
              /\ db' = [k.db EXCEPT !.reads = @ + engineReads,
                                    !.failed = @ + (IF engineFails THEN 1 ELSE 0)]
              /\ IF engineFails
                 THEN \* invoke rejects before any node ran; execute rethrows
                      /\ messages' = <<>>
                      /\ stream' = NoStream
                      /\ store' = store
                      /\ lastPut' = NoPut
                      /\ forwarded' = 0
                      /\ pc' = "failed"
                      /\ thrown' = "__input__"
                      /\ ui' = stopLoading(startLoading(NoUI))
                 ELSE /\ messages' = history
                      /\ stream' = restored
                      /\ pc' = "running"
                      /\ thrown' = "none"
                      /\ ui' = startLoading(NoUI)
                      /\ IF k.checkpointer
                         THEN LET r == put(tr, store, Checkpoint(history, restored))
                              IN  /\ store' = r.store
                                  /\ lastPut' = [n |-> 1, node |-> "__input__",
                                                 tag |-> NoTag,
                                                 before |-> Len(store),
                                                 after |-> Len(r.store),
                                                 result |-> r.result]
                                  /\ forwarded' = IF r.result = "wrapped" THEN 1 ELSE 0
                         ELSE /\ store' = store
                              /\ lastPut' = NoPut
                              /\ forwarded' = 0
  /\ pos' = 1
  /\ trace' = <<>>
  /\ modelCalls' = 0
  /\ modelInput' = <<>>
  /\ response' = <<>>
  /\ ctx' = NoContext
  /\ hookSeen' = <<>>
  /\ hookRun' = NoHookRun
  /\ mcpClient' = "none"
  /\ stdout' = <<>>
  /\ exitCode' = "none"
  /\ call' = NoCall
  /\ turns' = turns + 1

\* an invocation without --checkpoint whose reads succeed
Execute == Invoke({0}, {"ok"})

\* the command ends the process after execute returned or threw; what is left
\* for the next invocation is the checkpoint store
Exit ==
  /\ pc \in {"done", "failed"}
  /\ pc' = "idle"
  /\ cfg' = NoConfig
  /\ chain' = <<>>
  /\ pos' = 1
  /\ messages' = <<>>
  /\ stream' = NoStream
  /\ transient' = NoTransient
  /\ trace' = <<>>
  /\ lastPut' = NoPut
  /\ forwarded' = 0
  /\ modelCalls' = 0
  /\ modelInput' = <<>>
  /\ response' = <<>>
  /\ loaded' = <<>>
  /\ ctx' = NoContext
  /\ hookSeen' = <<>>
  /\ hookRun' = NoHookRun
  /\ mcpClient' = "none"
  /\ stdout' = <<>>
  /\ ui' = NoUI
  /\ db' = NoDb
  /\ options' = NoOptions
  /\ call' = NoCall
  /\ thrown' = "none"
  \* process.exit(0) after execute returned, process.exit(1) in the catch
  /\ exitCode' = IF pc = "done" THEN "0" ELSE "1"
  /\ UNCHANGED <<store, turns>>

InitializationNode ==
  /\ AtNode("initialization")
  /\ Return(chain[pos], messages, stream, Entered("initialization"))
  /\ ui' = AfterNode(ui)
  /\ UNCHANGED <<modelCalls, modelInput, response, ctx, hookSeen, hookRun, mcpClient, stdout>>

FileProcessingNode ==
  /\ AtNode("file_processing")
  /\ LET tr == Entered("file_processing")
     IN  \/ /\ cfg.files = "none"
            /\ Return(chain[pos], messages, stream, [tr EXCEPT !.fileMessages = <<>>])
            /\ ui' = AfterNode(ui)
         \/ /\ cfg.files # "none"
            /\ Return(chain[pos], messages, stream,
                 [tr EXCEPT !.fileMessages =
                    <<HumanMessage(generateFilesContextString(cfg.files))>>])
            /\ ui' = AfterNode(log(updateLoadingStage(ui)))
         \/ /\ cfg.files # "none"
            /\ Throw(chain[pos], tr)
            /\ ui' = AfterNode(updateLoadingStage(ui))
  /\ UNCHANGED <<modelCalls, modelInput, response, ctx, hookSeen, hookRun, mcpClient, stdout>>

HookNode ==
  /\ pc = "running" /\ pos <= Len(chain)
  /\ chain[pos].name \in {"pre_hook", "post_hook"}
  /\ LET fn == chain[pos].function
         tr == Entered(HookTag(fn))
     IN  \E behaviour \in HookOutcomes :
           LET r == createSandbox(behaviour, fn, messages, tr)
               hookResult == r.result
           IN  /\ hookSeen' = r.seen
               /\ hookRun' = [behaviour |-> behaviour, kind |-> r.kind,
                              error |-> r.error, elapsed |-> r.elapsed,
                              result |-> hookResult, before |-> tr.variables]
               /\ \/ /\ r.kind = "value"
                     /\ Return(chain[pos], r.state, stream,
                          IF hookResult.kind = "object"
                          THEN [r.data EXCEPT !.variables =
                                  MergeVariables(r.data.variables, hookResult.value)]
                          ELSE r.data)
                  \/ /\ r.kind = "error"
                     /\ Throw(chain[pos], r.data)
                  \/ /\ r.kind = "hang"
                     /\ Hang(chain[pos], r.data)
  /\ ui' = AfterNode(updateLoadingStage(ui))
  /\ UNCHANGED <<modelCalls, modelInput, response, ctx, mcpClient, stdout>>

ContextWindowNode ==
  /\ AtNode("context_window")
  /\ LET tr == Entered("context_window")
         r == contextWindow(messages, tr.fileMessages)
     IN  /\ ctx' = r
         /\ IF r.kind = "overflow" THEN Throw(chain[pos], tr)
            ELSE Return(chain[pos], r.messages, stream, tr)
         /\ ui' = AfterNode(CASE r.kind = "none" -> ui
                              [] r.kind = "trimmed" -> log(updateLoadingStage(ui))
                              [] OTHER -> updateLoadingStage(ui))
  /\ UNCHANGED <<modelCalls, modelInput, response, hookSeen, hookRun, mcpClient, stdout>>

StandardLLMNode ==
  /\ AtNode("standard_llm")
  /\ LET tr == Entered("standard-llm")
         p == prepareLLMMessages(messages, tr)
     IN  /\ modelInput' = p.messages
         /\ modelCalls' = modelCalls + 1
         /\ \/ /\ cfg.modelHasStream
               /\ \E ms \in ModelStreams :
                    /\ response' = ms.text
                    /\ Return(chain[pos], messages \o p.humanMessage,
                              LiveStream(ms.chunks), tr)
            \/ /\ ~cfg.modelHasStream
               /\ \E text \in ResponseTexts :
                    /\ response' = text
                    /\ Return(chain[pos],
                              messages \o p.humanMessage \o <<AIMessage(text)>>,
                              stream, tr)
            \/ /\ response' = response
               /\ Throw(chain[pos], tr)
  /\ ui' = AfterNode(updateLoadingStage(ui))
  /\ UNCHANGED <<ctx, hookSeen, hookRun, mcpClient, stdout>>

\* where the tool-server node can fail, in the order of its steps
McpFailures == {"model_provider", "list_tools", "zero_tools", "build_agent", "invoke"}

\* the client when the node is left: created once the model provider is
\* there; closed by the zero-tools branch and by the finally around invoke
mcpClientAfter(failure) ==
  CASE failure = "model_provider" -> "none"
    [] failure \in {"list_tools", "build_agent"} -> "open"
    [] OTHER -> "closed"

\* the indicator when the node is left: restarted if it was stopped, and
\* stopped again by the warning of the zero-tools branch
mcpLoading(failure, u) ==
  IF failure = "zero_tools" THEN log(updateLoadingStage(u)) ELSE updateLoadingStage(u)

McpLLMNode ==
  /\ AtNode("mcp_llm")
  /\ LET tr == Entered("mcp-llm")
         p == prepareLLMMessages(messages, tr)
     IN  \/ \* the node fails before the agent is invoked
            /\ Throw(chain[pos], tr)
            /\ \E failure \in McpFailures \ {"invoke"} :
                 /\ mcpClient' = mcpClientAfter(failure)
                 /\ ui' = AfterNode(mcpLoading(failure, ui))
            /\ UNCHANGED <<modelCalls, modelInput, response>>
         \/ \* the agent is invoked and fails
            /\ mcpClient' = mcpClientAfter("invoke")
            /\ modelInput' = p.messages
            /\ modelCalls' = modelCalls + 1
            /\ response' = response
            /\ Throw(chain[pos], tr)
            /\ ui' = AfterNode(mcpLoading("invoke", ui))
         \/ /\ mcpClient' = mcpClientAfter("none")
            /\ ui' = mcpLoading("none", ui)
            /\ modelInput' = p.messages
            /\ modelCalls' = modelCalls + 1
            /\ \E text \in ResponseTexts :
                 /\ response' = text
                 /\ Return(chain[pos],
                           p.humanMessage \o (p.messages \o AgentRun(text)),
                           stream, tr)
  /\ UNCHANGED <<ctx, hookSeen, hookRun, stdout>>

OutputNode ==
  /\ AtNode("output")
  /\ LET tr == Entered("output")
         shouldStream == cfg.shouldStream
     IN  \/ \* the stream breaks after k chunks
            /\ stream.state = "live"
            /\ \E k \in 0..Len(stream.chunks) :
                 stdout' = stdout \o (IF shouldStream
                                      THEN StreamWrites(SubSeq(stream.chunks, 1, k))
                                      ELSE <<>>)
            /\ Throw(chain[pos], tr)
         \/ \* a live stream is consumed and its text appended
            /\ stream.state = "live"
            /\ LET content == processStream(stream.chunks)
               IN  /\ stdout' = stdout
                                 \o (IF shouldStream THEN StreamWrites(stream.chunks) ELSE <<>>)
                                 \o handleConsoleOutput(content, TRUE, shouldStream)
                   /\ \/ Return(chain[pos], messages \o <<AIMessage(content)>>,
                                [state |-> "consumed", chunks |-> <<>>], tr)
                      \/ \* the response file cannot be written
                         Throw(chain[pos], tr)
         \/ \* a restored handle is truthy but cannot be iterated
            /\ stream.state \notin {"none", "live"}
            /\ stdout' = stdout
            /\ Throw(chain[pos], tr)
         \/ /\ stream.state = "none"
            /\ stdout' = stdout \o handleConsoleOutput(getLastMessageContent(messages),
                                                       FALSE, shouldStream)
            /\ \/ Return(chain[pos], messages, stream, tr)
               \/ \* the response file cannot be written
                  Throw(chain[pos], tr)
  /\ ui' = stopLoading(ui)
  /\ UNCHANGED <<modelCalls, modelInput, response, ctx, hookSeen, hookRun, mcpClient>>

\* SIGINT or SIGTERM while the workflow runs
Interrupt ==
  /\ pc = "running"
  /\ ui' = cleanup(ui)
  /\ pc' = "interrupted"
  /\ exitCode' = "0"
  /\ UNCHANGED <<thrown, db, options, call, store, cfg, chain, pos, messages, stream, transient, trace,
                 lastPut, forwarded, modelCalls, modelInput, response, loaded,
                 ctx, hookSeen, hookRun, mcpClient, stdout, turns>>

Next ==
  \/ Execute
  \/ InitializationNode
  \/ FileProcessingNode
  \/ HookNode
  \/ ContextWindowNode
  \/ StandardLLMNode
  \/ McpLLMNode
  \/ OutputNode
  \/ Exit

Spec == Init /\ [][Next]_vars

\* the store a session holds after one earlier invocation on the standard
\* path without streaming
EarlierSession ==
  <<Checkpoint(<<HumanMessage(<<UserAtoms[5]>>), AIMessage(<<"c1">>)>>, NoStream)>>

\* an invocation that names one of the session's checkpoints
ExecuteCheckpoint == Invoke(1..(MaxTurns + 1), {"ok"})

InitResume == store = EarlierSession /\ Fresh

NextResume == Next \/ ExecuteCheckpoint

\* the system with --checkpoint, on a session that already has a checkpoint
SpecResume == InitResume /\ [][NextResume]_vars

\* an invocation on a session whose latest checkpoint cannot be read: the
\* read in createCheckpointer fails, the engine's read fails or succeeds
ExecuteReadFails == Invoke({0}, ReadFaults \ {"ok"})

NextReadFailure == Next \/ ExecuteReadFails

\* the system with failing reads of the checkpoint database
SpecReadFailure == Init /\ [][NextReadFailure]_vars

\* the turn of a second invocation running on the same session
OtherTurn == <<HumanMessage(<<UserAtoms[5]>>), AIMessage(<<"c2">>)>>

OtherPresent(st) ==
  \E i \in 1..Len(st) : \E j \in 1..Len(st[i].messages) :
    st[i].messages[j] = OtherTurn[1]

\* the other invocation, started on the same latest checkpoint, reaches the
\* put after its output node while this one is running
OtherPut ==
  /\ pc = "running"
  /\ db.attached
  /\ ~OtherPresent(store)
  /\ store' = Append(store, Checkpoint(loaded \o OtherTurn, NoStream))
  /\ UNCHANGED <<pc, cfg, chain, pos, messages, stream, transient, trace, lastPut,
                 forwarded, modelCalls, modelInput, response, loaded, ctx, hookSeen,
                 hookRun, mcpClient, stdout, ui, db, options, call, thrown,
                 exitCode, turns>>

NextInterleaved == Next \/ OtherPut

\* two invocations interleaved on one session
SpecInterleaved == Init /\ [][NextInterleaved]_vars

\* every variable but call, store and pc
runVars ==
  <<cfg, chain, pos, messages, stream, transient, trace, lastPut, forwarded,
    modelCalls, modelInput, response, loaded, ctx, hookSeen, hookRun, mcpClient,
    stdout, ui, db, options, thrown, exitCode, turns>>

\* calculateInputBudget called with a context window, an output limit and a
\* reserve
CalculateInputBudget ==
  /\ \E cw \in 1..MaxContextWindow, mo \in 0..MaxOutputTokens,
        rt \in 0..MaxReserveTokens :
       call' = [op |-> "calculateInputBudget",
                contextWindow |-> cw, maxOutputTokens |-> mo, reserveTokens |-> rt,
                result |-> calculateInputBudget(cw, mo, rt)]
  /\ UNCHANGED <<store, pc, runVars>>

\* the budget function on its own
SpecBudget == Init /\ [][CalculateInputBudget]_vars

(***************************************************************************)
(* The SelectiveSaver's other methods, called on their own                 *)
(***************************************************************************)
SessionThread == "s"
Threads == {SessionThread, "t"}
Tags == {NoTag, "output", "standard-llm", "hook_"}
ListLimits == 0..2
PendingWrites == {<<>>, <<"w1">>}
TaskIds == {"task1", "task2"}

\* the config a caller hands to the saver: the thread and, by reference, the
\* transient data that carries the current-node tag
SaverConfig(thread, tag) ==
  [thread_id |-> thread,
   transientData |-> [NoTransient EXCEPT !.currentNodeName = tag]]

\* the wrapped store: what each method answers and what it leaves stored;
\* the checkpoints of SessionThread are st, the other thread has none
wrappedSaver(op, args, st) ==
  LET mine == IF op = "deleteThread" THEN args[1] = SessionThread
              ELSE args[1].thread_id = SessionThread
      newestFirst == IF mine THEN Reverse(st) ELSE <<>>
  IN  CASE op \in {"get", "getTuple"} ->
             [result |-> IF newestFirst = <<>> THEN <<>> ELSE <<Head(newestFirst)>>,
              store |-> st]
        [] op = "list" ->
             [result |-> IF args[2].limit = 0 THEN newestFirst
                         ELSE SubSeq(newestFirst, 1, Min(args[2].limit, Len(newestFirst))),
              store |-> st]
        [] op = "putWrites" -> [result |-> <<>>, store |-> st]
        [] op = "deleteThread" ->
             [result |-> <<>>, store |-> IF mine THEN <<>> ELSE st]

\* a method that hands its arguments to the same method of the wrapped saver
\* and returns what that returns
Delegate(op, args) == [forward |-> TRUE, op |-> op, args |-> args, result |-> <<>>]

SelectiveSaver_get(config) == Delegate("get", <<config>>)

\* variant: getTuple answers only when the current node is a checkpoint node
SelectiveSaver_getTuple_Filtered(config) ==
  IF shouldCheckpoint(config.transientData)
  THEN Delegate("getTuple", <<config>>)
  ELSE [forward |-> FALSE, op |-> "none", args |-> <<>>, result |-> <<>>]

SelectiveSaver_getTuple(config) == Delegate("getTuple", <<config>>)

SelectiveSaver_list(config, opts) == Delegate("list", <<config, opts>>)

SelectiveSaver_putWrites(config, writes, taskId) ==
  Delegate("putWrites", <<config, writes, taskId>>)

SelectiveSaver_deleteThread(threadId) == Delegate("deleteThread", <<threadId>>)

\* one call of a saver method while the transient data carries tag: d is
\* what the method does with its arguments
SaverCall(op, tag, args, d) ==
  LET w == IF d.forward THEN wrappedSaver(d.op, d.args, store)
           ELSE [result |-> <<>>, store |-> store]
  IN  /\ call' = [op |-> op, tag |-> tag, args |-> args,
                  forwarded |-> d.forward,
                  received |-> [op |-> d.op, args |-> d.args],
                  wrapped |-> wrappedSaver(op, args, store).result,
                  result |-> IF d.forward THEN w.result ELSE d.result]
      /\ store' = w.store
      /\ UNCHANGED <<pc, runVars>>

Get ==
  \E thread \in Threads, tag \in Tags :
    LET config == SaverConfig(thread, tag)
    IN  SaverCall("get", tag, <<config>>, SelectiveSaver_get(config))

GetTuple ==
  \E thread \in Threads, tag \in Tags :
    LET config == SaverConfig(thread, tag)
    IN  SaverCall("getTuple", tag, <<config>>, SelectiveSaver_getTuple(config))

List ==
  \E thread \in Threads, tag \in Tags, limit \in ListLimits :
    LET config == SaverConfig(thread, tag)
        opts == [limit |-> limit]
    IN  SaverCall("list", tag, <<config, opts>>, SelectiveSaver_list(config, opts))

PutWrites ==
  \E thread \in Threads, tag \in Tags, writes \in PendingWrites, taskId \in TaskIds :
    LET config == SaverConfig(thread, tag)
    IN  SaverCall("putWrites", tag, <<config, writes, taskId>>,
                  SelectiveSaver_putWrites(config, writes, taskId))

DeleteThread ==
  \E thread \in Threads, tag \in Tags :
    SaverCall("deleteThread", tag, <<thread>>, SelectiveSaver_deleteThread(thread))

NextSaver == Get \/ GetTuple \/ List \/ PutWrites \/ DeleteThread

\* the saver's pass-through methods on a session with two checkpoints
InitSaver ==
  /\ store = EarlierSession
              \o <<Checkpoint(EarlierSession[1].messages \o OtherTurn, NoStream)>>
  /\ Fresh

SpecSaver == InitSaver /\ [][NextSaver]_vars

\* the same system with the user's interrupt
NextInterrupt == Next \/ Interrupt

SpecInterrupt == Init /\ [][NextInterrupt]_vars

(***************************************************************************)
(* Properties                                                              *)
(***************************************************************************)
IsPrefix(a, b) == Len(a) <= Len(b) /\ SubSeq(b, 1, Len(a)) = a
IsSuffix(a, b) == Len(a) <= Len(b) /\ SubSeq(b, Len(b) - Len(a) + 1, Len(b)) = a
\* a occurs in b as a contiguous run
OccursIn(a, b) ==
  \E k \in 0..Len(b) : k + Len(a) <= Len(b) /\ SubSeq(b, k + 1, k + Len(a)) = a
NonSystem(msgs) == Filter(msgs, {"human", "ai", "tool"})
IsFileContext(m) == m.content # <<>> /\ Head(m.content) = "ctx_open"
HasFileContext(msgs) == \E i \in 1..Len(msgs) : IsFileContext(msgs[i])
Entered_(name) == \E i \in 1..Len(trace) : trace[i].name = name
LastEntered == IF trace = <<>> THEN "none" ELSE Last(trace).name

\* C1: a put is forwarded to the wrapped store exactly when the current-node
\* tag read at call time is on the allow-list; a put that is not forwarded
\* leaves the wrapped store untouched and returns the caller's config.
C1_PutForwardedIffAllowListed ==
  lastPut.n > 0 =>
    /\ (lastPut.after = lastPut.before + 1) <=> (lastPut.tag \in checkpointNodes)
    /\ (lastPut.result = "wrapped") <=> (lastPut.tag \in checkpointNodes)
    /\ lastPut.tag \notin checkpointNodes =>
         lastPut.after = lastPut.before /\ lastPut.result = "config"

\* one invocation in which a put was forwarded and a later one suppressed
C1_Witness ==
  /\ forwarded = 1
  /\ lastPut.result = "config"
  /\ lastPut.tag = "hook_output"
  /\ lastPut.n > 1

\* C2: a failed invocation has made no put to the wrapped store.
C2_FailedRunPutsNothing == pc = "failed" => forwarded = 0

\* C3 (as stated): the messages assembled for the model contain every
\* non-system message of the history the invocation loaded.
C3_AssembledIncludesLoaded ==
  modelCalls > 0 => OccursIn(NonSystem(loaded), modelInput)

C3_TurnLeavesCheckpoint ==
  (pc = "done" /\ cfg.enableHistory) =>
    /\ store # <<>>
    /\ Last(store).messages = messages
    /\ \E i \in 1..Len(messages) : messages[i] = HumanMessage(UserInput(turns))
    /\ Last(messages) = AIMessage(response)

C3_AssembledIncludesLoadedUnlessTrimmed ==
  (modelCalls > 0 /\ ctx.kind # "trimmed") => OccursIn(NonSystem(loaded), modelInput)

C3_NextStartsFromLeft ==
  /\ (pc \in {"done", "failed"}) => store' = store
  /\ (pc = "idle" /\ pc' = "running" /\ cfg'.enableHistory /\ store # <<>>) =>
       (loaded' = Last(store).messages /\ messages' = loaded')

\* C3 (amended): a successful turn leaves its user and assistant message in
\* the latest checkpoint, the next invocation of the session starts from
\* exactly that sequence, and unless the context-window node trims in that
\* invocation the assembled messages contain all of its non-system messages.
C3_NextTurnSeesPreviousTurn ==
  /\ [](C3_TurnLeavesCheckpoint /\ C3_AssembledIncludesLoadedUnlessTrimmed)
  /\ [][C3_NextStartsFromLeft]_vars

\* a second turn whose model call received an untrimmed, non-empty history
C3_Witness ==
  /\ turns = 2
  /\ pc = "done"
  /\ cfg.enableHistory
  /\ Len(loaded) >= 2
  /\ ctx.kind = "fits"
  /\ modelCalls = 1

DocumentedOrder(c) ==
  LET llm == IF c.hasMcpServers THEN "mcp_llm" ELSE "standard_llm"
  IN  <<Node("initialization", 0, ""), Node("file_processing", 0, "")>>
      \o HookNodes("pre_hook", c.preHooks)
      \o <<Node("context_window", 0, ""), Node(llm, 0, "")>>
      \o HookNodes("post_hook", c.postHooks)
      \o <<Node("output", 0, "")>>

\* C5: the nodes of a run execute in the order initialization, file
\* processing, pre-hooks, context window, LLM, post-hooks, output.
C5_DocumentedNodeOrder == IsPrefix(trace, DocumentedOrder(cfg))

\* C6: the state handed to a post-hook ends with this turn's assistant
\* response.
C6_PostHookSeesResponse ==
  LastEntered = "post_hook" =>
    /\ hookSeen # <<>>
    /\ Last(hookSeen) = [type |-> "ai", content |-> response]

\* a post-hook that ran after a streamed response
C6_Witness ==
  /\ LastEntered = "post_hook"
  /\ stream.state = "consumed"
  /\ Len(response) = 2

\* C7: unless the context-window node trimmed, the sequence stored by a
\* successful turn has the sequence loaded at its start as a prefix.
C7_StoredExtendsLoaded ==
  (pc = "done" /\ cfg.enableHistory /\ ctx.kind # "trimmed") =>
    /\ IsPrefix(loaded, Last(store).messages)
    /\ Len(Last(store).messages) >= Len(loaded)

\* C8: when the context-window node trims, the result is a suffix of the
\* history it was given and keeps the most recent message.
C8_TrimKeepsSuffix ==
  (LastEntered = "context_window" /\ ctx.kind = "trimmed") =>
    /\ IsSuffix(ctx.messages, loaded)
    /\ ctx.messages # <<>>
    /\ Last(ctx.messages) = Last(loaded)

\* C9: no file-context message is in the persistent sequence or in any
\* checkpoint of the store.
C9_FileContextNeverPersisted ==
  /\ ~HasFileContext(messages)
  /\ \A i \in 1..Len(store) : ~HasFileContext(store[i].messages)

\* C10: once the context-window node has run, file tokens plus history
\* tokens above totalBudget mean the run has failed without a model call.
C10_NoModelCallAboveBudget ==
  (Entered_("context_window")
     /\ countMessageTokens(transient.fileMessages)
          + countMessageTokens(ctx.messages) > totalBudget) =>
    (pc = "failed" /\ modelCalls = 0)

\* C11: the context-window node raises its capacity error only when the file
\* context alone exceeds the input budget; with a file context within the
\* budget it succeeds for every history.
C11_OverflowOnlyWhenFilesTooLarge ==
  ctx.kind = "overflow" => countMessageTokens(transient.fileMessages) > totalBudget

\* C12: a history that fits together with the file context is returned
\* unchanged, and applying the node again to the result of a successful pass
\* (same model, same file context) returns that result unchanged.
C12_TrimIdempotent ==
  ctx.kind \in {"none", "fits", "trimmed"} =>
    LET fileMessages == transient.fileMessages
        again == contextWindow(ctx.messages, fileMessages)
    IN  /\ again.kind # "overflow"
        /\ again.messages = ctx.messages
        /\ (countMessageTokens(loaded) + countMessageTokens(fileMessages) <= totalBudget
              => ctx.messages = loaded)

C12_Witness ==
  /\ ctx.kind = "trimmed"
  /\ ctx.messages # <<>>
  /\ Len(ctx.messages) < Len(loaded)
  /\ contextWindow(ctx.messages, transient.fileMessages).kind = "fits"

IsHook(node) == node.name \in {"pre_hook", "post_hook"}
NonTerminating == {"loop_on_load", "loop_in_call", "never_settles"}
Occurrences(tr, node) == Cardinality({i \in 1..Len(tr) : tr[i] = node})

\* C13: a hook that never finishes on its own, while its file is loaded or
\* inside the invoked hook function, is terminated and surfaces as an error
\* no later than the 5000 ms limit; a hook node never hangs the run.
C13_HookTerminates ==
  (trace # <<>> /\ IsHook(Last(trace)) /\ hookRun.behaviour \in NonTerminating)
    => /\ pc = "failed"
       /\ hookRun.error = "timeout"
       /\ hookRun.elapsed <= HOOK_TIMEOUT

\* a hook node step
HookStep ==
  /\ pc = "running" /\ pos <= Len(chain) /\ IsHook(chain[pos])
  /\ trace' = Append(trace, chain[pos])

\* C14: whatever a hook does to its state and data arguments, the caller's
\* persistent state and transient data are unaffected; a successful hook only
\* merges its returned object into the variable bag.
C14_HookStepIsolated ==
  HookStep =>
    LET returned == IF pc' # "running" /\ pc' # "done" THEN NoVariables
                    ELSE hookRun'.result.value
    IN  /\ messages' = messages
        /\ stream' = stream
        /\ transient'.fileMessages = transient.fileMessages
        /\ DOMAIN transient'.variables = DOMAIN transient.variables \cup DOMAIN returned
        /\ \A k \in DOMAIN transient'.variables :
             transient'.variables[k] =
               IF k \in DOMAIN returned THEN returned[k] ELSE transient.variables[k]

C14_HookIsolation == [][C14_HookStepIsolated]_vars

C14_Witness ==
  /\ trace # <<>> /\ IsHook(Last(trace))
  /\ hookRun.behaviour = "null"
  /\ pc \in {"running", "done"}
  /\ messages # <<>>
  /\ transient.fileMessages # <<>>

FailingHooks == {"throw", "number", "loop_on_load", "loop_in_call", "never_settles"}

\* C15: when a pre-hook fails (throws, runs out of time, returns a malformed
\* value) the variable bag is what it was before that hook started, the hook
\* ran once, no later node runs and the invocation made no model call.
C15_FailedPreHook ==
  (trace # <<>> /\ Last(trace).name = "pre_hook" /\ hookRun.behaviour \in FailingHooks)
    => /\ pc \notin {"running", "done"}
       /\ transient.variables = hookRun.before
       /\ Occurrences(trace, Last(trace)) = 1
       /\ modelCalls = 0

C15_NoNodeAfterFailure == (pc \notin {"idle", "running", "done"}) => trace' = <<>>

C15_FailedPreHookStopsRun == []C15_FailedPreHook /\ [][C15_NoNodeAfterFailure]_vars

C15_Witness ==
  /\ trace # <<>> /\ Last(trace).name = "pre_hook" /\ Last(trace).index = 1
  /\ hookRun.behaviour = "number"
  /\ pc = "failed"
  /\ hookRun.before # NoTransient.variables
  /\ "note" \in DOMAIN hookRun.before

\* C16: every tool-server client opened during an invocation is closed before
\* the invocation ends, on every path (success, zero tools, failure while
\* listing tools, failure while building or invoking the agent).
C16_ClientClosedAtEnd == pc \in {"done", "failed"} => mcpClient # "open"

\* C17: a stream handle never survives from one invocation to the next: when
\* the output node runs, the state holds a stream handle only if the LLM node
\* of this invocation returned one, so on the tool-using path the output node
\* always takes the finished last message, also after a turn that streamed.
C17_StreamOnlyFromThisInvocation ==
  (AtNode("output") /\ stream.state # "none")
    => /\ stream.state = "live"
       /\ ~cfg.hasMcpServers
       /\ cfg.modelHasStream

ResponseWrites == {i \in 1..Len(stdout) : stdout[i].kind \in {"chunk", "response"}}

\* C18: if a run fails, no part of the model response has been written to
\* standard output.
C18_FailedRunWroteNoResponse == pc = "failed" => ResponseWrites = {}

\* a step in which the output node returns
OutputStep == AtNode("output") /\ pc' \in {"running", "done"}

C20_OutputStepAppendsResponse ==
  OutputStep =>
    IF stream.state = "live"
    THEN /\ Len(messages') = Len(messages) + 1
         /\ SubSeq(messages', 1, Len(messages)) = messages
         /\ Last(messages') = AIMessage(response)
    ELSE messages' = messages /\ stream' = stream

\* C20: when the output node consumes a stream it appends exactly one
\* assistant message whose text is the in-order concatenation of all chunk
\* texts and leaves the earlier messages unchanged; without a stream it does
\* not change the persistent state.
C20_OutputAppendsStreamedText == [][C20_OutputStepAppendsResponse]_vars

C20_Witness ==
  /\ trace # <<>> /\ Last(trace).name = "output"
  /\ pc \in {"running", "done"}
  /\ stream.state = "consumed"
  /\ Len(response) = 2
  /\ Len(messages) >= 4
  /\ Last(messages) = AIMessage(response)

\* C19: on SIGINT or SIGTERM at any point of a run, also after the indicator
\* has been stopped and restarted, the running indicator is stopped and its
\* terminal line cleared before the process exits.
C19_InterruptClearsIndicator ==
  pc = "interrupted" => (~AnyRunning(ui.running) /\ ui.line = "clear")

\* C21: no error is swallowed: when a node throws, no later node executes,
\* the loading indicator is stopped, and execute rejects, so that the process
\* reports the error and exits with a non-zero code.
C21_ThrownEndsRun ==
  thrown # "none"
    => /\ pc = "failed"
       /\ Last(trace).name = thrown
       /\ ui.current = 0 /\ ~AnyRunning(ui.running)

C21_FailedExitsNonZero ==
  pc = "failed" => (pc' = "idle" /\ exitCode' = "1" /\ trace' = <<>>)

C21_NoErrorSwallowed == []C21_ThrownEndsRun /\ [][C21_FailedExitsNonZero]_vars

C21_Witness ==
  /\ pc = "failed"
  /\ thrown = "standard_llm"
  /\ Len(cfg.postHooks) > 0
  /\ Len(ui.running) > 1

\* C22: every built graph has exactly one LLM node, the tool-using agent node
\* iff a tool server is configured and the standard LLM node otherwise; a run
\* executes at most one LLM step and never both kinds.
LLMNodeNames == {"standard_llm", "mcp_llm"}

C22_ExactlyOneLLMNode ==
  pc # "idle"
    => /\ Cardinality({i \in 1..Len(chain) : chain[i].name \in LLMNodeNames}) = 1
       /\ \A i \in 1..Len(chain) :
            chain[i].name \in LLMNodeNames
              => (chain[i].name = "mcp_llm" <=> cfg.hasMcpServers)
       /\ Cardinality({i \in 1..Len(trace) : trace[i].name \in LLMNodeNames}) <= 1
       /\ (pc = "done" =>
             Cardinality({i \in 1..Len(trace) : trace[i].name \in LLMNodeNames}) = 1)

C22_Witness ==
  /\ pc = "done"
  /\ cfg.hasMcpServers
  /\ \E i \in 1..Len(trace) : trace[i].name = "mcp_llm"

\* C28: a successfully completed invocation with a session forwards exactly
\* one put to the wrapped store, the one issued after the output node,
\* whatever the number of hooks and whether or not the response was streamed.
C28_DoneForwardedOnce ==
  (pc = "done" /\ cfg.enableHistory)
    => /\ forwarded = 1
       /\ lastPut.n = Len(chain) + 1

C28_ForwardStep ==
  store' # store
    => /\ pc = "running" /\ chain[pos].name = "output"
       /\ lastPut'.node = "output" /\ lastPut'.result = "wrapped"
       /\ forwarded' = forwarded + 1
       /\ store' = Append(store, Checkpoint(messages', stream'))

C28_ExactlyOnePutForwarded ==
  []C28_DoneForwardedOnce /\ [][C28_ForwardStep]_vars

C28_Witness ==
  /\ pc = "done" /\ cfg.enableHistory
  /\ Len(cfg.preHooks) = 1 /\ Len(cfg.postHooks) = 1
  /\ cfg.shouldStream
  /\ forwarded = 1

\* the tag each node writes into the transient data when it starts
TagOf(node) ==
  CASE node.name = "standard_llm"            -> "standard-llm"
    [] node.name = "mcp_llm"                 -> "mcp-llm"
    [] node.name \in {"pre_hook", "post_hook"} -> HookTag(node.function)
    [] OTHER                                 -> node.name

\* C27: the tag the Checkpoint Filter reads for a put is the tag of the node
\* whose step produced the checkpoint being put: no later node has replaced
\* it, so the output step's checkpoint is forwarded even when post-hook
\* nodes follow the output node, and the post-hook steps forward nothing.
C27_PutStep ==
  (pc = "running" /\ lastPut' # lastPut)
    => /\ lastPut'.node = chain[pos].name
       /\ lastPut'.tag = TagOf(chain[pos])
       /\ lastPut'.tag = transient'.currentNodeName

C27_OutputStep ==
  (AtNode("output") /\ cfg.enableHistory /\ trace' # trace /\ pc' # "failed")
    => /\ lastPut'.tag = "output" /\ lastPut'.result = "wrapped"
       /\ store' = Append(store, Checkpoint(messages', stream'))

C27_PostHookStep ==
  (AtNode("post_hook") /\ trace' # trace) => store' = store

C25_NothingOpened ==
  (pc # "idle" /\ ~cfg.enableHistory)
    => /\ db = NoDb
       /\ lastPut = NoPut /\ forwarded = 0
       /\ loaded = <<>>

C25_StoreUntouched ==
  (~cfg'.enableHistory \/ (pc # "idle" /\ ~cfg.enableHistory)) => store' = store

C25_NoSessionNoCheckpointer ==
  []C25_NothingOpened /\ [][C25_StoreUntouched]_vars

C25_Witness ==
  /\ pc = "done" /\ ~cfg.enableHistory
  /\ store # <<>>
  /\ Len(cfg.preHooks) > 0 /\ cfg.files # "none"
  /\ db = NoDb

\* C26: an invocation that names a checkpoint id resumes from that
\* checkpoint: the history it loads is the message sequence stored in the
\* named checkpoint, not the one of the session's latest checkpoint.
C26_ResumesFromNamedCheckpoint ==
  (pc # "idle" /\ options.checkpoint # 0)
    => loaded = store[options.checkpoint].messages

\* C30: when reading the session's latest checkpoint fails at the start of
\* an invocation, the invocation does not fail for it: it proceeds with an
\* empty history and, when it completes, has written a checkpoint that holds
\* only the new turn and is the session's latest.
C30_ReadFailureStartsFresh ==
  (pc # "idle" /\ db.failed > 0)
    => /\ thrown # "__input__"
       /\ loaded = <<>>
       /\ pc = "done"
            => /\ forwarded = 1
               /\ Last(store).messages = messages
               /\ Len(store) > 1
                    => \A i \in 1..Len(messages) :
                         \A j \in 1..Len(store[Len(store) - 1].messages) :
                           messages[i].type = "human"
                             => messages[i] # store[Len(store) - 1].messages[j]

\* C29: with two invocations interleaved on one session, every forwarded
\* checkpoint is the history its own invocation loaded (possibly trimmed)
\* followed by that invocation's user message and assistant messages, and
\* holds no message produced by the other invocation.
C29_ForwardedStep ==
  (pc = "running" /\ lastPut' # lastPut /\ lastPut'.result = "wrapped")
    => LET stored == Last(store').messages
           own == ctx.messages \o <<HumanMessage(UserInput(turns))>>
       IN  /\ IsPrefix(own, stored)
           /\ Len(stored) > Len(own)
           /\ \A i \in (Len(own) + 1)..Len(stored) : stored[i].type \in {"ai", "tool"}
           /\ \A i \in 1..Len(stored) :
                (stored[i] = OtherTurn[1]) => (OtherTurn[1] \in {loaded[j] : j \in 1..Len(loaded)})

C29_ForwardedIsOwnTurn == [][C29_ForwardedStep]_vars

\* C24: for every contextWindow > 0 and all non-negative maxOutputTokens and
\* reserveTokens, calculateInputBudget is at least floor(0.1 * contextWindow)
\* and at most contextWindow.
C24_BudgetWithinBounds ==
  call.op = "calculateInputBudget"
    => /\ call.result >= call.contextWindow \div 10
       /\ call.result <= call.contextWindow

\* both caps and the floor are in play: an output limit above half of the
\* window and a reserve above a tenth of it
C24_Witness ==
  /\ call.op = "calculateInputBudget"
  /\ call.contextWindow = 20
  /\ call.maxOutputTokens > 10 /\ call.reserveTokens > 2
  /\ call.result = 8

PassThroughMethods == {"get", "getTuple", "list", "putWrites", "deleteThread"}

\* C23: get, getTuple, list, putWrites and deleteThread of the Checkpoint
\* Filter are pure pass-throughs: for every call and every current-node tag
\* the wrapped store receives the same call with the same arguments and the
\* caller receives the wrapped store's result.
C23_PassThrough ==
  call.op \in PassThroughMethods
    => /\ call.forwarded
       /\ call.received.op = call.op
       /\ call.received.args = call.args
       /\ call.result = call.wrapped

\* a read of the session made while the tag is not a checkpoint node's
C23_Witness ==
  /\ call.op = "getTuple"
  /\ call.tag = "standard-llm"
  /\ call.args[1].thread_id = SessionThread
  /\ Len(call.result) = 1

====
